---- MODULE Spec2Model ----
(***************************************************************************)
(* A model of SWR2-ASR: the greedy CTC decoder of swr2_asr/train.py and    *)
(* the MLSDataset indexer and padding calculator of swr2_asr/utils.py.     *)
(***************************************************************************)
EXTENDS Integers, Sequences, FiniteSets, TLC

VARIABLES
    \* ---- greedy_decoder (train.py) ----
    arg_maxes,          \* torch.argmax(output, dim=2): one row of class indices per batch element
    blank_label,        \* parameter blank_label
    collapse_repeated,  \* parameter collapse_repeated
    i,                  \* position of the outer loop (1-based row; Len(arg_maxes)+1 when finished)
    j,                  \* position of the inner loop (0-based timestep, as in the code)
    decode,             \* the list `decode` of the row being processed
    decodes,            \* the lists handed to text_transform.decode so far, one per finished row
    \* ---- the filesystem and the process (utils.py) ----
    dirs,               \* the directories that exist, as paths (tuples of components)
    manifest,           \* the transcripts.txt files: path -> lines, each line a tuple of characters
    audio,              \* the audio files: path -> container metadata (duration, sample rate)
    paddings,           \* the paddings.txt sidecars: path -> lines of characters
    rng,                \* state of numpy's process-global random generator
    disturbed,          \* history: other code drew from the generator since the last construction
    cpu_count,          \* os.cpu_count(); 0 stands for None
    live,               \* the logical splits this run of the program builds datasets for
    ds                  \* per logical split, the MLSDataset object built for it last

decoderVars == <<arg_maxes, blank_label, collapse_repeated, i, j, decode, decodes>>

fsVars == <<dirs, manifest, audio, paddings>>

datasetVars == <<fsVars, rng, disturbed, cpu_count, live, ds>>

vars == <<decoderVars, datasetVars>>

\* ------------------------------------------------------------------ bounds

\* largest ordinary class index of the decoder inputs
MaxToken == 3
\* longest argmax row enumerated exhaustively
MaxRowLen == 4

\* ------------------------------------------------------- greedy_decoder

\* default of the parameter blank_label
DefaultBlank == 28

Vocab == (1..MaxToken) \cup {DefaultBlank}

\* the raw argmax row of the documented example
ExampleArgs == <<1, 1, 2, 2, 2, 28, 3>>

RowsUpTo(n) == UNION {[1..k -> Vocab] : k \in 0..n}

\* rows used for batches of two elements: the prefixes of the example row
PairRows == {SubSeq(ExampleArgs, 1, k) : k \in 0..Len(ExampleArgs)}

Batches ==
    {<<r>> : r \in RowsUpTo(MaxRowLen) \cup {ExampleArgs}}
        \cup {<<r1, r2>> : r1 \in PairRows, r2 \in PairRows}

\* Python's args[k] for a 0-based k that may be -1 (the last element)
PyIndex(args, k) == IF k < 0 THEN args[Len(args) + k + 1] ELSE args[k + 1]

\* mutant: the guard j != 0 is dropped, so timestep 0 is compared with args[-1]
EmitsNoFirstGuard(args, jj, blank, collapse) ==
    /\ PyIndex(args, jj) # blank
    /\ ~(collapse /\ PyIndex(args, jj) = PyIndex(args, jj - 1))

\* mutant: the flag collapse_repeated is ignored and repeats are always collapsed
EmitsAlwaysCollapse(args, jj, blank, collapse) ==
    /\ PyIndex(args, jj) # blank
    /\ ~(jj # 0 /\ PyIndex(args, jj) = PyIndex(args, jj - 1))

\* whether the body of the inner loop appends args[j] to decode
Emits(args, jj, blank, collapse) ==
    /\ PyIndex(args, jj) # blank
    /\ ~(collapse /\ jj # 0 /\ PyIndex(args, jj) = PyIndex(args, jj - 1))

\* one iteration of `for j, index in enumerate(args)`
InnerStep ==
    /\ i <= Len(arg_maxes)
    /\ j < Len(arg_maxes[i])
    /\ decode' = IF Emits(arg_maxes[i], j, blank_label, collapse_repeated)
                 THEN Append(decode, PyIndex(arg_maxes[i], j))
                 ELSE decode
    /\ j' = j + 1
    /\ UNCHANGED <<arg_maxes, blank_label, collapse_repeated, i, decodes>>
    /\ UNCHANGED datasetVars

\* the inner loop is exhausted: decodes.append(text_transform.decode(decode)),
\* and the outer loop moves to the next row with a fresh decode
FinishRow ==
    /\ i <= Len(arg_maxes)
    /\ j = Len(arg_maxes[i])
    /\ decodes' = Append(decodes, decode)
    /\ i' = i + 1
    /\ j' = 0
    /\ decode' = <<>>
    /\ UNCHANGED <<arg_maxes, blank_label, collapse_repeated>>
    /\ UNCHANGED datasetVars

DecoderNext == InnerStep \/ FinishRow

\* ------------------------------------------------- characters and strings
\* A string is a tuple of one-character strings, so that strip, split and the
\* decimal conversions are computed as Python computes them.

TAB == "\t"

NL == "\n"

Whitespace == {" ", TAB, NL}

Digits == <<"0", "1", "2", "3", "4", "5", "6", "7", "8", "9">>

RECURSIVE LStrip(_)
LStrip(s) == IF s # <<>> /\ Head(s) \in Whitespace THEN LStrip(Tail(s)) ELSE s

RECURSIVE RStrip(_)
RStrip(s) ==
    IF s # <<>> /\ s[Len(s)] \in Whitespace THEN RStrip(SubSeq(s, 1, Len(s) - 1)) ELSE s

\* str.strip()
Strip(s) == RStrip(LStrip(s))

\* position of the first occurrence of character c in s, 0 when there is none
FirstPos(s, c) ==
    IF \E p \in 1..Len(s) : s[p] = c
    THEN CHOOSE p \in 1..Len(s) : s[p] = c /\ \A q \in 1..(p - 1) : s[q] # c
    ELSE 0

\* str.split(c, 1): at most one split, at the first occurrence of c
SplitOnce(s, c) ==
    IF FirstPos(s, c) = 0 THEN <<s>>
    ELSE <<SubSeq(s, 1, FirstPos(s, c) - 1), SubSeq(s, FirstPos(s, c) + 1, Len(s))>>

RECURSIVE SplitAll(_, _)
\* str.split(c): every occurrence of c separates two fields (empty fields kept)
SplitAll(s, c) ==
    IF FirstPos(s, c) = 0 THEN <<s>>
    ELSE <<SubSeq(s, 1, FirstPos(s, c) - 1)>>
             \o SplitAll(SubSeq(s, FirstPos(s, c) + 1, Len(s)), c)

RECURSIVE IntToStr(_)
\* f"{n}" for n >= 0
IntToStr(n) ==
    IF n < 10 THEN <<Digits[n + 1]>>
    ELSE IntToStr(n \div 10) \o <<Digits[(n % 10) + 1]>>

DigitValue(c) == (CHOOSE d \in 1..10 : Digits[d] = c) - 1

RECURSIVE StrToInt(_)
\* int(s) for a string of decimal digits
StrToInt(s) ==
    IF Len(s) = 1 THEN DigitValue(s[1])
    ELSE 10 * StrToInt(SubSeq(s, 1, Len(s) - 1)) + DigitValue(s[Len(s)])

\* ------------------------------------------------------ splits and paths

Splits == {"train", "valid", "test", "dev"}

MLSSplits == {"train", "test", "dev"}

\* mutant: the logical split is used as the on-disk partition
split_to_mls_split_identity(split) == split

\* split_to_mls_split
split_to_mls_split(split) == IF split = "valid" THEN "train" ELSE split

\* the arguments dataset_path and language of every construction
DatasetPath == "data"

Language == "mls_german_opus"

\* ".opus" if "opus" in language else ".flac"
FileExt == ".opus"

RootDir == <<DatasetPath>>

LanguageDir == <<DatasetPath, Language>>

SplitDir(part) == <<DatasetPath, Language, part>>

TranscriptsPath(part) == <<DatasetPath, Language, part, "transcripts.txt">>

PaddingsPath(part) == <<DatasetPath, Language, part, "paddings.txt">>

\* os.path.join(dataset_path, language, mls_split, "audio", speakerid, bookid,
\*              "_".join([speakerid, bookid, chapterid]) + file_ext)
AudioPath(part, sample) ==
    <<DatasetPath, Language, part, "audio", sample.speakerid, sample.bookid,
      sample.speakerid \o <<"_">> \o sample.bookid \o <<"_">> \o sample.chapterid,
      FileExt>>

\* ------------------------------------------------ numpy's global generator
\* numpy's generator is modelled by a full-period linear congruential generator
\* over RngStates: what matters is that a draw is a function of the generator's
\* state and advances it.

RngStates == 0..7

RngNext(state) == (5 * state + 3) % 8

\* the constant the constructor seeds with
Seed == 42

\* mutant: np.random.seed is not called, the generator keeps its state
np_random_seed_skipped(state, seed) == state

\* np.random.seed(seed): the state is a function of the seed alone
np_random_seed(state, seed) == seed % 8

RECURSIVE np_random_choice(_, _, _)
\* np.random.choice(n, k): k indices in 0..n-1 drawn with replacement, and the
\* generator state after the draw
np_random_choice(state, n, k) ==
    IF k = 0 THEN [indices |-> <<>>, state |-> state]
    ELSE LET rest == np_random_choice(RngNext(state), n, k - 1)
         IN  [indices |-> <<RngNext(state) % n>> \o rest.indices, state |-> rest.state]

\* mutant: both fractions rounded to the nearest integer
SampleCountRounded(n, split) ==
    IF split = "valid" THEN (2 * (n * 2) + 10) \div 20
    ELSE (2 * (n * 8) + 10) \div 20

\* int(len(utterances) * 0.2) for valid and int(len(utterances) * 0.8) for train:
\* the float product truncated, which is the integer quotient for every n below 2*10^6
SampleCount(n, split) ==
    IF split = "valid" THEN (n * 2) \div 10 ELSE (n * 8) \div 10

\* --------------------------------------------------------- MLSDataset

\* the slot of a logical split for which no construction has been attempted
NoObject ==
    [status |-> "none", first_missing |-> "none", builds |-> 0,
     after_other_use |-> FALSE,
     mls_split |-> "none", transcripts_path |-> <<>>, dataset_lookup |-> <<>>,
     tokenizer |-> FALSE, max_spec_length |-> 0, max_utterance_length |-> 0,
     calc |-> "none", chunks |-> 0, probed |-> {}]

\* the first level of the directory layout that is missing (observed when the
\* constructor is entered; kept with the object for the claims, not by the code)
FirstMissing(d, part) ==
    IF RootDir \notin d THEN "root"
    ELSE IF LanguageDir \notin d THEN "language"
    ELSE IF SplitDir(part) \notin d THEN "split"
    ELSE "none"

\* _handle_download_dataset: the error it raises ("" for none) and the
\* directories afterwards. fetched: whether torch.hub.download_url_to_file
\* returns (it stores one file under dataset_path and creates no directory).
HandleDownloadDataset(d, download, fetched) ==
    IF LanguageDir \notin d /\ download
    THEN IF RootDir \in d
         THEN [error |-> "FileExistsError", dirs |-> d]
         ELSE [error |-> IF fetched THEN "" ELSE "download failed",
               dirs |-> d \cup {RootDir}]
    ELSE IF LanguageDir \notin d /\ ~download
    THEN [error |-> "Dataset not found. Set download to True to download it", dirs |-> d]
    ELSE [error |-> "", dirs |-> d]

\* _validate_local_directory: the error it raises ("" for none)
ValidateLocalDirectory(d, part) ==
    IF RootDir \notin d THEN "Dataset path does not exist"
    ELSE IF LanguageDir \notin d THEN "Language not found in dataset"
    ELSE IF SplitDir(part) \notin d THEN "Split not found in dataset"
    ELSE ""

\* [line.strip().split("\t", 1) for line in transcripts]
SplitLines(lines) == [k \in 1..Len(lines) |-> SplitOnce(Strip(lines[k]), TAB)]

\* the tuple unpacking `for _, utterance in transcripts` needs two items per line
Unpackable(transcripts) == \A k \in 1..Len(transcripts) : Len(transcripts[k]) = 2

Utterances(transcripts) == [k \in 1..Len(transcripts) |-> Strip(transcripts[k][2])]

Identifiers(transcripts) ==
    [k \in 1..Len(transcripts) |-> SplitAll(Strip(transcripts[k][1]), "_")]

\* the indices kept, in order, and the generator state afterwards: a seeded
\* draw for valid and train, every line for test and dev
Subsample(n, split, state) ==
    IF split \in {"valid", "train"}
    THEN np_random_choice(np_random_seed(state, Seed), n, SampleCount(n, split))
    ELSE [indices |-> [k \in 1..n |-> k - 1], state |-> state]

\* the body of `with open(transcripts_path)`: the error raised ("" for none),
\* the dataset_lookup built and the generator state afterwards
BuildLookup(lines, split, state) ==
    LET transcripts == SplitLines(lines)
    IN  IF ~Unpackable(transcripts)
        THEN [error |-> "ValueError: not enough values to unpack",
              lookup |-> <<>>, state |-> state]
        ELSE LET utterances == Utterances(transcripts)
                 identifier == Identifiers(transcripts)
                 drawn == Subsample(Len(utterances), split, state)
                 picked == drawn.indices
             IN  IF \E k \in 1..Len(picked) : Len(identifier[picked[k] + 1]) < 3
                 THEN [error |-> "IndexError: list index out of range",
                       lookup |-> <<>>, state |-> drawn.state]
                 ELSE [error |-> "",
                       lookup |-> [k \in 1..Len(picked) |->
                                     [speakerid |-> identifier[picked[k] + 1][1],
                                      bookid |-> identifier[picked[k] + 1][2],
                                      chapterid |-> identifier[picked[k] + 1][3],
                                      utterance |-> utterances[picked[k] + 1]]],
                       state |-> drawn.state]

\* how many constructions per split are told apart (the counter stops there)
MaxBuilds == 2

Attempt(split, missing, outcome) ==
    [NoObject EXCEPT !.status = outcome,
                     !.first_missing = missing, !.after_other_use = disturbed,
                     !.builds = IF ds[split].builds < MaxBuilds
                                THEN ds[split].builds + 1 ELSE MaxBuilds]

\* MLSDataset.__init__(dataset_path, language, split, download)
Construct(split, download) ==
    /\ split \in live
    /\ \E fetched \in BOOLEAN :
        LET mls == split_to_mls_split(split)
            missing == FirstMissing(dirs, mls)
            got == HandleDownloadDataset(dirs, download, fetched)
            invalid == ValidateLocalDirectory(got.dirs, mls)
            path == TranscriptsPath(mls)
        IN  /\ dirs' = got.dirs
            /\ IF got.error # ""
               THEN /\ ds' = [ds EXCEPT ![split] = Attempt(split, missing, got.error)]
                    /\ rng' = rng
               ELSE IF invalid # ""
               THEN /\ ds' = [ds EXCEPT ![split] = Attempt(split, missing, invalid)]
                    /\ rng' = rng
               ELSE IF path \notin DOMAIN manifest
               THEN /\ ds' = [ds EXCEPT ![split] =
                                Attempt(split, missing, "FileNotFoundError")]
                    /\ rng' = rng
               ELSE LET built == BuildLookup(manifest[path], split, rng)
                    IN  /\ rng' = built.state
                        /\ ds' = [ds EXCEPT ![split] =
                                    IF built.error # ""
                                    THEN Attempt(split, missing, built.error)
                                    ELSE [Attempt(split, missing, "ok") EXCEPT
                                            !.mls_split = mls,
                                            !.transcripts_path = path,
                                            !.dataset_lookup = built.lookup]]
    /\ disturbed' = FALSE
    /\ UNCHANGED <<manifest, audio, paddings, cpu_count, live>>
    /\ UNCHANGED decoderVars

\* some other code of the process draws from numpy's global generator
OtherRandomUse ==
    /\ rng' = RngNext(rng)
    /\ disturbed' = TRUE
    /\ UNCHANGED <<fsVars, cpu_count, live, ds>>
    /\ UNCHANGED decoderVars

\* set_tokenizer(tokenizer)
SetTokenizer(split) ==
    /\ split \in live
    /\ ds[split].status = "ok"
    /\ ds' = [ds EXCEPT ![split].tokenizer = TRUE]
    /\ UNCHANGED <<fsVars, rng, disturbed, cpu_count, live>>
    /\ UNCHANGED decoderVars

Max(a, b) == IF a >= b THEN a ELSE b

\* (audio_duration * sample_rate) // 200, the duration held in tenths of a second
\* (the durations used, 0.5 s, 1.0 s and 2.0 s, are exact as floats)
SpecLength(metadata) == (metadata.duration * metadata.sample_rate) \div (10 * 200)

\* len(self.tokenizer.encode(utterance).ids): the tokenizer is taken to be the
\* character tokenizer, one id per character
EncodeLen(utterance) == Len(utterance)

RECURSIVE CalculateMaxLengthBestEffort(_, _, _)
\* a variant of _calculate_max_length that passes over an entry whose audio file
\* is missing and goes on with the rest of the chunk
CalculateMaxLengthBestEffort(part, chunk, acc) ==
    IF chunk = <<>> THEN acc
    ELSE IF AudioPath(part, Head(chunk)) \notin DOMAIN audio
    THEN CalculateMaxLengthBestEffort(part, Tail(chunk), acc)
    ELSE CalculateMaxLengthBestEffort(part, Tail(chunk),
            [error |-> "",
             spec |-> Max(acc.spec, SpecLength(audio[AudioPath(part, Head(chunk))])),
             utterance |-> Max(acc.utterance, EncodeLen(Head(chunk).utterance))])

RECURSIVE CalculateMaxLength(_, _, _)
\* _calculate_max_length(chunk), the running maxima so far being acc; the error
\* is the one audio_metadata.load raises when the file is missing
CalculateMaxLength(part, chunk, acc) ==
    IF chunk = <<>> THEN acc
    ELSE IF AudioPath(part, Head(chunk)) \notin DOMAIN audio
    THEN [acc EXCEPT !.error = "FileNotFoundError"]
    ELSE CalculateMaxLength(part, Tail(chunk),
            [error |-> "",
             spec |-> Max(acc.spec, SpecLength(audio[AudioPath(part, Head(chunk))])),
             utterance |-> Max(acc.utterance, EncodeLen(Head(chunk).utterance))])

\* the fallback when os.cpu_count() is None
DefaultThreads == 4

ThreadCount == IF cpu_count = 0 THEN DefaultThreads ELSE cpu_count

\* [lookup[i : i + chunk_size] for i in range(0, len(lookup), chunk_size)], chunk_size > 0
Chunks(lookup, chunk_size) ==
    [c \in 1..((Len(lookup) + chunk_size - 1) \div chunk_size) |->
        SubSeq(lookup, (c - 1) * chunk_size + 1,
               IF c * chunk_size < Len(lookup) THEN c * chunk_size ELSE Len(lookup))]

RECURSIVE Reduce(_, _, _)
\* the loop over results: the running maxima start from the object's fields
Reduce(results, k, acc) ==
    IF k > Len(results) THEN acc
    ELSE Reduce(results, k + 1,
                [spec |-> Max(acc.spec, results[k].spec),
                 utterance |-> Max(acc.utterance, results[k].utterance)])

\* the two lines written to paddings.txt
SidecarLines(spec, utterance) == <<IntToStr(spec) \o <<NL>>, IntToStr(utterance)>>

\* [int(line.strip()) for line in f.readlines()]
ReadSidecar(lines) == [k \in 1..Len(lines) |-> StrToInt(Strip(lines[k]))]

\* calc_paddings(): a call that raises before the sidecar is looked for changes
\* nothing and is not a step. The outcome of any other call is left in the fields
\* calc (how the call ended), chunks (the chunks handed to the worker pool) and
\* probed (the audio files whose metadata was asked for), kept for the claims
CalcPaddings(split) ==
    /\ split \in live
    /\ ds[split].status = "ok"
    \* `if not self.dataset_lookup: raise ValueError("Dataset not loaded")`
    /\ ds[split].dataset_lookup # <<>>
    \* `if not self.tokenizer` raises (AttributeError) while no tokenizer is set
    /\ ds[split].tokenizer
    /\ LET self == ds[split]
           sidecar == PaddingsPath(self.mls_split)
           chunk_size == Len(self.dataset_lookup) \div ThreadCount
           raised(e) == [self EXCEPT !.calc = e, !.chunks = 0, !.probed = {}]
       IN  IF sidecar \in DOMAIN paddings
           THEN /\ ds' = [ds EXCEPT ![split] =
                            [self EXCEPT !.calc = "cached", !.chunks = 0, !.probed = {},
                                !.max_spec_length = ReadSidecar(paddings[sidecar])[1],
                                !.max_utterance_length = ReadSidecar(paddings[sidecar])[2]]]
                /\ paddings' = paddings
           ELSE IF chunk_size = 0
           THEN /\ ds' = [ds EXCEPT ![split] =
                            raised("ValueError: range() arg 3 must not be zero")]
                /\ paddings' = paddings
           ELSE LET chunks == Chunks(self.dataset_lookup, chunk_size)
                    results == [c \in 1..Len(chunks) |->
                                  CalculateMaxLength(self.mls_split, chunks[c],
                                      [error |-> "", spec |-> 0, utterance |-> 0])]
                    total == Reduce(results, 1, [spec |-> self.max_spec_length,
                                                 utterance |-> self.max_utterance_length])
                    asked == UNION {{AudioPath(self.mls_split, chunks[c][k]) :
                                        k \in 1..Len(chunks[c])} : c \in 1..Len(chunks)}
                IN  IF \E c \in 1..Len(results) : results[c].error # ""
                    THEN /\ ds' = [ds EXCEPT ![split] =
                                     [self EXCEPT !.calc = "FileNotFoundError",
                                         !.chunks = Len(chunks), !.probed = asked]]
                         /\ paddings' = paddings
                    ELSE /\ ds' = [ds EXCEPT ![split] =
                                     [self EXCEPT !.calc = "computed",
                                         !.chunks = Len(chunks), !.probed = asked,
                                         !.max_spec_length = total.spec,
                                         !.max_utterance_length = total.utterance]]
                         /\ paddings' = [p \in DOMAIN paddings \cup {sidecar} |->
                                           IF p = sidecar
                                           THEN SidecarLines(total.spec, total.utterance)
                                           ELSE paddings[p]]
    /\ UNCHANGED <<dirs, manifest, audio, rng, disturbed, cpu_count, live>>
    /\ UNCHANGED decoderVars

\* every line of every transcripts.txt has its audio file
AudioComplete ==
    \A path \in DOMAIN manifest :
        Cardinality({a \in DOMAIN audio : a[3] = path[3]}) = Len(manifest[path])

\* an audio file disappears from the corpus (at most one file is ever missing)
RemoveAudio(path) ==
    /\ path \in DOMAIN audio
    /\ audio' = [p \in DOMAIN audio \ {path} |-> audio[p]]
    /\ UNCHANGED <<dirs, manifest, paddings, rng, disturbed, cpu_count, live, ds>>
    /\ UNCHANGED decoderVars

\* the audio files the transcripts on disk name, one per line
ExpectedAudio ==
    UNION {{AudioPath(path[3], [speakerid |-> <<Digits[k + 1]>>, bookid |-> <<"1">>,
                                chapterid |-> <<"1">>]) :
               k \in 1..Len(manifest[path])} : path \in DOMAIN manifest}

\* a missing audio file is put back in place, as a recording of some duration
PutAudio(path, duration) ==
    /\ path \in ExpectedAudio \ DOMAIN audio
    /\ audio' = [p \in DOMAIN audio \cup {path} |->
                    IF p = path THEN [duration |-> duration, sample_rate |-> 16000]
                    ELSE audio[p]]
    /\ UNCHANGED <<dirs, manifest, paddings, rng, disturbed, cpu_count, live, ds>>
    /\ UNCHANGED decoderVars

\* a paddings.txt is deleted from the corpus
RemoveSidecar(path) ==
    /\ path \in DOMAIN paddings
    /\ paddings' = [p \in DOMAIN paddings \ {path} |-> paddings[p]]
    /\ UNCHANGED <<dirs, manifest, audio, rng, disturbed, cpu_count, live, ds>>
    /\ UNCHANGED decoderVars

\* ------------------------------------------------------------ corpora
\* A corpus line is one of a few kinds; the kind fixes the utterance (hence the
\* token count) and the duration of the audio file.

\* bounds on the corpora enumerated
MaxN == 5
MaxPadN == 5
MaxLines == 3
MaxT == 3
MaxCpu == 2
MaxObjects == 2

Kinds == {"long_audio", "long_text"}

\* the three entries of the documented example: 1.0 s, 2.0 s, 0.5 s with 5, 12, 3 tokens
ExampleKinds == <<"example_1", "example_2", "example_3">>

\* duration in tenths of a second
KindDuration(kind) ==
    CASE kind = "long_audio" -> 20
      [] kind = "long_text" -> 5
      [] kind = "example_1" -> 10
      [] kind = "example_2" -> 20
      [] kind = "example_3" -> 5

KindTokens(kind) ==
    CASE kind = "long_audio" -> 3
      [] kind = "long_text" -> 12
      [] kind = "example_1" -> 5
      [] kind = "example_2" -> 12
      [] kind = "example_3" -> 3

\* line k of a transcripts.txt: "<k>_1_1\t<utterance>\n"
GoodLine(k, kind) ==
    <<Digits[k + 1], "_", "1", "_", "1", TAB>> \o [c \in 1..KindTokens(kind) |-> "a"] \o <<NL>>

CorpusLines(kinds) == [k \in 1..Len(kinds) |-> GoodLine(k, kinds[k])]

Uniform(n, kind) == [k \in 1..n |-> kind]

Corpora(n) == UNION {[1..k -> Kinds] : k \in 0..n}

\* the corpora of at most n long_audio lines of which at most one is a long_text line
OneOdd(n) ==
    {[k \in 1..m |-> IF k = q THEN "long_text" ELSE "long_audio"] : m \in 0..n, q \in 0..n}

\* the transcripts of the partitions a behaviour does not vary
DefaultKinds == <<"long_text", "long_audio">>

\* the audio files of a layout (partition -> kinds of its lines)
LayoutAudio(layout) ==
    [path \in UNION {{AudioPath(part, [speakerid |-> <<Digits[k + 1]>>, bookid |-> <<"1">>,
                                       chapterid |-> <<"1">>]) :
                         k \in 1..Len(layout[part])} : part \in DOMAIN layout} |->
        [duration |-> KindDuration(layout[path[3]][DigitValue(path[5][1])]),
         sample_rate |-> 16000]]

NoFiles == [p \in {} |-> <<>>]

DecoderIdle ==
    /\ arg_maxes = <<>>
    /\ blank_label = DefaultBlank
    /\ collapse_repeated = TRUE
    /\ i = 1
    /\ j = 0
    /\ decode = <<>>
    /\ decodes = <<>>

DatasetIdle ==
    /\ dirs = {}
    /\ manifest = NoFiles
    /\ audio = NoFiles
    /\ paddings = NoFiles
    /\ rng = 0
    /\ disturbed = FALSE
    /\ cpu_count = 1
    /\ live = {}
    /\ ds = [s \in Splits |-> NoObject]

\* a complete corpus on disk, no sidecar yet, no dataset built
CorpusInit(layout) ==
    /\ dirs = {RootDir, LanguageDir} \cup {SplitDir(part) : part \in DOMAIN layout}
    /\ manifest = [path \in {TranscriptsPath(part) : part \in DOMAIN layout} |->
                     CorpusLines(layout[path[3]])]
    /\ audio = LayoutAudio(layout)
    /\ paddings = NoFiles
    /\ disturbed = FALSE
    /\ ds = [s \in Splits |-> NoObject]
    /\ DecoderIdle

NewDataset == \E s \in Splits, download \in BOOLEAN : ds[s].builds = 0 /\ Construct(s, download)

AnyConstruct == \E s \in Splits, download \in BOOLEAN : Construct(s, download)

Tokenize == \E s \in Splits : SetTokenizer(s)

Calc == \E s \in Splits : CalcPaddings(s)

LoseAudio == AudioComplete /\ \E path \in DOMAIN audio : RemoveAudio(path)

\* ---- the life of the datasets of one run over a complete corpus
Init ==
    /\ \E kinds \in OneOdd(MaxN) :
          CorpusInit([part \in MLSSplits |-> IF part = "train" THEN kinds ELSE DefaultKinds])
    /\ live \in {L \in SUBSET Splits : Cardinality(L) = MaxObjects}
    /\ cpu_count \in 1..MaxCpu
    /\ rng = 0

Next == NewDataset \/ Tokenize \/ Calc

Spec == Init /\ [][Next]_vars

\* ---- one dataset and its padding bounds, audio files may disappear
PadInit ==
    /\ \E s \in Splits, kinds \in Corpora(MaxPadN) \cup {ExampleKinds} :
          /\ live = {s}
          /\ CorpusInit([part \in {split_to_mls_split(s)} |-> kinds])
    /\ cpu_count \in 0..MaxT
    /\ rng = 0

PadNext == NewDataset \/ Tokenize \/ Calc \/ LoseAudio

SpecPad == PadInit /\ [][PadNext]_vars

\* ---- one dataset and its padding bounds, audio files disappear and come
\* back, the sidecar may be deleted
RestoreAudio ==
    \E path \in ExpectedAudio, kind \in Kinds : PutAudio(path, KindDuration(kind))

LoseSidecar == \E path \in DOMAIN paddings : RemoveSidecar(path)

\* the longest corpus of these behaviours
MaxProbeN == 3

ProbeInit ==
    /\ \E s \in Splits, kinds \in Corpora(MaxProbeN) :
          /\ live = {s}
          /\ CorpusInit([part \in {split_to_mls_split(s)} |-> kinds])
    /\ cpu_count \in 1..MaxCpu
    /\ rng = 0

ProbeNext == NewDataset \/ Tokenize \/ Calc \/ LoseAudio \/ RestoreAudio \/ LoseSidecar

SpecProbe == ProbeInit /\ [][ProbeNext]_vars

\* ---- repeated constructions while other code uses the generator
SeedInit ==
    /\ \E n \in 0..MaxN :
          CorpusInit([part \in MLSSplits |->
                        IF part = "train" THEN Uniform(n, "long_audio") ELSE DefaultKinds])
    /\ live = {"train", "valid"}
    /\ cpu_count = 1
    /\ rng = 0

SeedNext == AnyConstruct \/ OtherRandomUse

SpecSeed == SeedInit /\ [][SeedNext]_vars

\* ---- constructions over incomplete layouts and malformed transcripts
NoTabLine == <<"1", "_", "1", "_", "1", NL>>

TwoFieldLine == <<"1", "_", "1", TAB, "a", NL>>

FourFieldLine == <<"1", "_", "1", "_", "1", "_", "1", TAB, "a", NL>>

LineSamples ==
    {GoodLine(1, "long_audio"), GoodLine(2, "long_audio"), NoTabLine, TwoFieldLine, FourFieldLine}

Manifests ==
    UNION {[1..n -> LineSamples] : n \in 0..MaxLines}
        \cup {CorpusLines(Uniform(n, "long_audio")) : n \in 0..MaxN}

IndexInit ==
    /\ \E s \in Splits :
          /\ live = {s}
          /\ \/ /\ dirs \in {{}, {RootDir}}
                /\ manifest = NoFiles
             \/ \E parts \in {{}, {split_to_mls_split(s)}, MLSSplits,
                               MLSSplits \ {split_to_mls_split(s)}} :
                   \E lines \in IF split_to_mls_split(s) \in parts THEN Manifests ELSE {<<>>} :
                       /\ dirs = {RootDir, LanguageDir} \cup {SplitDir(part) : part \in parts}
                       /\ manifest = [path \in {TranscriptsPath(part) : part \in parts} |->
                                         IF path[3] = split_to_mls_split(s) THEN lines
                                         ELSE CorpusLines(DefaultKinds)]
    /\ audio = NoFiles
    /\ paddings = NoFiles
    /\ rng = 0
    /\ disturbed = FALSE
    /\ cpu_count = 1
    /\ ds = [s \in Splits |-> NoObject]
    /\ DecoderIdle

IndexNext == AnyConstruct

SpecIndex == IndexInit /\ [][IndexNext]_vars

\* ---- the decoder alone
\* greedy_decoder is entered with a batch of argmax rows and its two parameters
DecoderInit ==
    /\ DatasetIdle
    /\ arg_maxes \in Batches
    /\ blank_label \in Vocab
    /\ collapse_repeated \in BOOLEAN
    /\ i = 1
    /\ j = 0
    /\ decode = <<>>
    /\ decodes = <<>>

SpecDecode == DecoderInit /\ [][DecoderNext]_vars


\* ---------------------------------------------- reference decodings

RECURSIVE RemoveAll(_, _)
\* s without the occurrences of x
RemoveAll(s, x) ==
    IF s = <<>> THEN <<>>
    ELSE IF Head(s) = x THEN RemoveAll(Tail(s), x)
    ELSE <<Head(s)>> \o RemoveAll(Tail(s), x)

RECURSIVE CollapseRuns(_)
\* s with every run of consecutive equal values replaced by one value
CollapseRuns(s) ==
    IF Len(s) <= 1 THEN s
    ELSE IF s[1] = s[2] THEN CollapseRuns(Tail(s))
    ELSE <<s[1]>> \o CollapseRuns(Tail(s))

\* the positions (1-based) of a raw row that the claim says are emitted
KeptPositions(a, blank) ==
    {p \in 1..Len(a) : a[p] # blank /\ (p = 1 \/ a[p] # a[p - 1])}

RECURSIVE PickPositions(_, _, _)
PickPositions(a, keep, p) ==
    IF p > Len(a) THEN <<>>
    ELSE (IF p \in keep THEN <<a[p]>> ELSE <<>>) \o PickPositions(a, keep, p + 1)

\* C1: with collapse_repeated=True the sequence handed to the tokenizer's decode
\* is the raw argmax row with runs collapsed first and blanks removed second,
\* i.e. position p is kept iff a[p] is not blank and differs from the raw a[p-1];
\* the example row [1,1,2,2,2,28,3] with blank 28 gives [1,2,3].
C1_CollapseThenDropBlanks ==
    \A r \in 1..Len(decodes) :
        collapse_repeated =>
            /\ decodes[r] = RemoveAll(CollapseRuns(arg_maxes[r]), blank_label)
            /\ decodes[r] = PickPositions(arg_maxes[r],
                                          KeptPositions(arg_maxes[r], blank_label), 1)
            /\ (arg_maxes[r] = ExampleArgs /\ blank_label = DefaultBlank)
                   => decodes[r] = <<1, 2, 3>>

C1_Witness ==
    /\ collapse_repeated
    /\ blank_label = DefaultBlank
    /\ arg_maxes = <<ExampleArgs>>
    /\ decodes = <<(<<1, 2, 3>>)>>

\* C2: with collapse_repeated=False the emitted sequence is the raw row with
\* every blank removed and nothing else, order and repeats kept (the example
\* row gives [1,1,2,2,2,3]); and for either flag value no blank is emitted.
C2_OnlyBlanksDropped ==
    \A r \in 1..Len(decodes) :
        /\ ~collapse_repeated =>
              /\ decodes[r] = RemoveAll(arg_maxes[r], blank_label)
              /\ (arg_maxes[r] = ExampleArgs /\ blank_label = DefaultBlank)
                     => decodes[r] = <<1, 1, 2, 2, 2, 3>>
        /\ \A p \in 1..Len(decodes[r]) : decodes[r][p] # blank_label

C2_Witness ==
    /\ ~collapse_repeated
    /\ blank_label = DefaultBlank
    /\ arg_maxes = <<ExampleArgs>>
    /\ decodes = <<(<<1, 1, 2, 2, 2, 3>>)>>

\* ------------------------------------------------- padding bounds claims

\* the audio metadata and the token counts of the samples of a dataset, read
\* off the corpus directly (defined while the audio files asked for exist)
NeededSpec(split, k) ==
    SpecLength(audio[AudioPath(split_to_mls_split(split), ds[split].dataset_lookup[k])])

NeededTokens(split, k) == EncodeLen(ds[split].dataset_lookup[k].utterance)

Padded(split) == ds[split].calc \in {"computed", "cached"}

\* C3: after any calc_paddings calls on datasets of different logical splits over
\* one corpus, starting without sidecar, the bounds of every dataset cover every
\* entry of its own index: max_spec_length >= floor(duration*sample_rate/200)
\* and max_utterance_length >= token count.
C3_BoundsCoverOwnIndex ==
    \A s \in Splits :
        Padded(s) =>
            \A k \in 1..Len(ds[s].dataset_lookup) :
                /\ ds[s].max_spec_length >= NeededSpec(s, k)
                /\ ds[s].max_utterance_length >= NeededTokens(s, k)

\* a dataset on which calc_paddings can get past its two initial checks
Ready(split) ==
    /\ ds[split].status = "ok"
    /\ ds[split].dataset_lookup # <<>>
    /\ ds[split].tokenizer

\* C4: for a dataset with a non-empty index and a tokenizer, a first
\* calc_paddings call without sidecar (no probe failing) computes the bounds and
\* writes them to paddings.txt of the partition as two lines; a call that finds
\* the sidecar sets both fields to the values written and probes nothing.
C4_Memoization ==
    \A s \in Splits :
        (Ready(s) /\ ds[s].calc \notin {"none", "FileNotFoundError"}) =>
            /\ PaddingsPath(ds[s].mls_split) \in DOMAIN paddings
            /\ Padded(s)
            /\ paddings[PaddingsPath(ds[s].mls_split)] =
                   SidecarLines(ds[s].max_spec_length, ds[s].max_utterance_length)
            /\ ds[s].calc = "cached" => (ds[s].chunks = 0 /\ ds[s].probed = {})

\* the half of C4 about the calls that find the sidecar, on its own: such a call
\* leaves the values of the sidecar in the fields and hands no chunk to the pool
C4_SidecarReadVerbatim ==
    \A s \in Splits :
        ds[s].calc = "cached" =>
            /\ PaddingsPath(ds[s].mls_split) \in DOMAIN paddings
            /\ paddings[PaddingsPath(ds[s].mls_split)] =
                   SidecarLines(ds[s].max_spec_length, ds[s].max_utterance_length)
            /\ ds[s].chunks = 0
            /\ ds[s].probed = {}

RECURSIVE Flatten(_)
Flatten(chunks) == IF chunks = <<>> THEN <<>> ELSE Head(chunks) \o Flatten(Tail(chunks))

\* C5: without sidecar, for every non-empty index of n entries and every worker
\* count T >= 1 (n < T and T not dividing n included), calc_paddings ends without
\* error, its contiguous chunks cover every entry exactly once, and the bounds
\* are the maxima over all entries of floor(duration*sample_rate/200) and of the
\* token count; the three documented entries give (160, 12).
C5_PaddingCorrect ==
    \A s \in Splits :
        (Ready(s) /\ ds[s].calc \notin {"none", "cached", "FileNotFoundError"}
                  /\ ds[s].probed \subseteq DOMAIN audio) =>
            LET lookup == ds[s].dataset_lookup
            IN  /\ ds[s].calc = "computed"
                /\ Flatten(Chunks(lookup, Len(lookup) \div ThreadCount)) = lookup
                /\ \A k \in 1..Len(lookup) :
                       /\ ds[s].max_spec_length >= NeededSpec(s, k)
                       /\ ds[s].max_utterance_length >= NeededTokens(s, k)
                /\ \E k \in 1..Len(lookup) : ds[s].max_spec_length = NeededSpec(s, k)
                /\ \E k \in 1..Len(lookup) : ds[s].max_utterance_length = NeededTokens(s, k)
                /\ (s = "test" /\ manifest[ds[s].transcripts_path] = CorpusLines(ExampleKinds))
                       => (ds[s].max_spec_length = 160 /\ ds[s].max_utterance_length = 12)

\* the audio files of the entries of a dataset's index
LookupAudio(split) ==
    {AudioPath(ds[split].mls_split, ds[split].dataset_lookup[k]) :
        k \in 1..Len(ds[split].dataset_lookup)}

SidecarMissing(split) == PaddingsPath(ds[split].mls_split) \notin DOMAIN paddings

\* a calc_paddings call now would hand chunks to the pool and one probe would fail
ProbeFails(split) ==
    /\ Ready(split)
    /\ SidecarMissing(split)
    /\ Len(ds[split].dataset_lookup) \div ThreadCount > 0
    /\ ~(LookupAudio(split) \subseteq DOMAIN audio)

\* a calc_paddings call on the dataset that was ready for it
Called(split) == Ready(split) /\ CalcPaddings(split)

\* C11: padding computation is all-or-nothing. A calc_paddings call made while
\* no sidecar exists and the audio file of some entry of some chunk is missing
\* raises, leaves max_spec_length and max_utterance_length as they were and
\* creates no paddings.txt; the next call on the dataset does not read a sidecar:
\* it hands every entry of the index to the pool again.
C11_AllOrNothing ==
    [][\A s \in Splits :
          /\ (ProbeFails(s) /\ Called(s)) =>
                /\ ds'[s].calc = "FileNotFoundError"
                /\ ds'[s].max_spec_length = ds[s].max_spec_length
                /\ ds'[s].max_utterance_length = ds[s].max_utterance_length
                /\ paddings' = paddings
          /\ (ds[s].calc = "FileNotFoundError" /\ Called(s)) =>
                /\ SidecarMissing(s)
                /\ ds'[s].calc # "cached"
                /\ ds'[s].probed = LookupAudio(s)
                /\ ds'[s].calc = "computed" =>
                      /\ LookupAudio(s) \subseteq DOMAIN audio
                      /\ ~SidecarMissing(s)'
                      /\ \A k \in 1..Len(ds[s].dataset_lookup) :
                             /\ ds'[s].max_spec_length >= NeededSpec(s, k)
                             /\ ds'[s].max_utterance_length >= NeededTokens(s, k)
    ]_vars

\* a call has raised on a missing audio file, with bounds from an earlier call in
\* the fields (the sidecar of that call deleted since) and no sidecar on disk
C11_Witness ==
    \E s \in Splits :
        /\ Ready(s)
        /\ ds[s].calc = "FileNotFoundError"
        /\ ~(ds[s].probed \subseteq DOMAIN audio)
        /\ ds[s].max_spec_length > 0
        /\ ds[s].max_utterance_length > 0
        /\ SidecarMissing(s)

\* ------------------------------------------------------- indexer claims

\* the lines of the transcripts.txt a dataset was built from
LinesOf(split) == manifest[ds[split].transcripts_path]

\* the nearest integer to num/10 (no tenth used here lies halfway)
RoundTenths(num) == (2 * num + 10) \div 20

\* C6 as stated: valid keeps round(0.2*N) and train round(0.8*N) of the N lines
\* of the on-disk train partition, test and dev keep all N lines of their own.
C6_RoundedSizes ==
    \A s \in Splits :
        ds[s].status = "ok" =>
            Len(ds[s].dataset_lookup) =
                CASE s = "valid" -> RoundTenths(2 * Len(LinesOf(s)))
                  [] s = "train" -> RoundTenths(8 * Len(LinesOf(s)))
                  [] OTHER -> Len(LinesOf(s))

\* C6 as amended: valid keeps floor(0.2*N) and train floor(0.8*N) of the N lines
\* of the on-disk train partition (the product is truncated, not rounded), test
\* and dev keep all N lines of their own.
C6_TruncatedSizes ==
    \A s \in Splits :
        ds[s].status = "ok" =>
            Len(ds[s].dataset_lookup) =
                CASE s = "valid" -> (2 * Len(LinesOf(s))) \div 10
                  [] s = "train" -> (8 * Len(LinesOf(s))) \div 10
                  [] OTHER -> Len(LinesOf(s))

C6_Witness ==
    /\ ds["train"].status = "ok"
    /\ Len(LinesOf("train")) = 2
    /\ Len(ds["train"].dataset_lookup) = 1

\* C7: whatever the download flag, a construction over an incomplete layout
\* fails with the error named after the first missing level: the dataset path,
\* the language, the split.
C7_DistinctConfigErrors ==
    \A s \in Splits :
        ds[s].builds > 0 =>
            /\ ds[s].first_missing = "root" => ds[s].status = "Dataset path does not exist"
            /\ ds[s].first_missing = "language" => ds[s].status = "Language not found in dataset"
            /\ ds[s].first_missing = "split" => ds[s].status = "Split not found in dataset"

\* a line with a tab separator whose identifier has exactly three "_"-separated fields
WellFormed(line) ==
    /\ FirstPos(line, TAB) # 0
    /\ Len(SplitAll(SubSeq(line, 1, FirstPos(line, TAB) - 1), "_")) = 3

\* entry e of an index is what a well-formed line yields
FromLine(e, line) ==
    /\ WellFormed(line)
    /\ <<e.speakerid, e.bookid, e.chapterid>> =
           SplitAll(SubSeq(line, 1, FirstPos(line, TAB) - 1), "_")
    /\ e.utterance = Strip(SubSeq(line, FirstPos(line, TAB) + 1, Len(line)))

\* C8: a construction succeeds only if no line of the transcripts is malformed
\* (no tab, or an identifier of fewer or more than three fields), for every
\* logical split; and every entry of a built index comes from a line whose
\* identifier has exactly three fields.
C8_MalformedLinesFatal ==
    \A s \in Splits :
        ds[s].status = "ok" =>
            /\ \A k \in 1..Len(LinesOf(s)) : WellFormed(LinesOf(s)[k])
            /\ \A n \in 1..Len(ds[s].dataset_lookup) :
                   \E k \in 1..Len(LinesOf(s)) :
                       FromLine(ds[s].dataset_lookup[n], LinesOf(s)[k])

\* C9: a construction for valid or train that replaces a dataset built from the
\* same transcripts yields the same index, entry by entry, whatever was drawn
\* from the global generator in between; and the entries stand in the order of
\* the draw.
C9_SameIndexEveryTime ==
    [][\A s \in {"valid", "train"} :
          /\ (ds[s].status = "ok" /\ ds'[s].status = "ok")
                 => ds'[s].dataset_lookup = ds[s].dataset_lookup
          /\ ds'[s].status = "ok" =>
                 LET n == Len(manifest[TranscriptsPath("train")])
                     draw == np_random_choice(Seed % 8, n,
                                 IF s = "valid" THEN (2 * n) \div 10 ELSE (8 * n) \div 10)
                 IN  \A k \in 1..Len(ds'[s].dataset_lookup) :
                        ds'[s].dataset_lookup[k].speakerid = <<Digits[draw.indices[k] + 2]>>
      ]_vars

C9_Witness ==
    /\ ds["valid"].builds = 2
    /\ ds["valid"].after_other_use
    /\ ds["valid"].status = "ok"
    /\ ds["valid"].dataset_lookup # <<>>
    /\ ds["train"].builds >= 1

\* C10: split_to_mls_split maps valid to train and train, test, dev to
\* themselves, so always to an on-disk partition; and the transcripts path,
\* the audio paths and the paddings.txt path of a dataset name that partition.
C10_ResolvedPartition ==
    /\ split_to_mls_split("valid") = "train"
    /\ \A s \in MLSSplits : split_to_mls_split(s) = s
    /\ \A s \in Splits : split_to_mls_split(s) \in MLSSplits
    /\ \A s \in Splits :
          LET part == IF s = "valid" THEN "train" ELSE s
          IN  /\ ds[s].builds > 0 => ds[s].status = "ok"
              /\ ds[s].status = "ok" =>
                    /\ ds[s].mls_split = part
                    /\ ds[s].transcripts_path = <<DatasetPath, Language, part, "transcripts.txt">>
                    /\ \A a \in ds[s].probed :
                          <<a[1], a[2], a[3], a[4]>> = <<DatasetPath, Language, part, "audio">>
                    /\ Padded(s) =>
                          <<DatasetPath, Language, part, "paddings.txt">> \in DOMAIN paddings
    /\ \A p \in DOMAIN paddings : p[3] \in MLSSplits

C10_Witness ==
    /\ ds["valid"].calc = "computed"
    /\ ds["valid"].probed # {}
    /\ DOMAIN paddings = {<<DatasetPath, Language, "train", "paddings.txt">>}

====
